---- MODULE Spec2Model ----
(***************************************************************************)
(* The agent orchestrator (agent/orchestrator-service/main.go): the        *)
(* five-phase agentic loop, the action executor, the plan generator, the   *)
(* answer verifier and the in-memory conversation store.                   *)
(*                                                                         *)
(* Go strings that the code concatenates, compares with "" or stores are   *)
(* finite sequences of text atoms: "" is <<>>, concatenation is \o.        *)
(* float64 confidences are integers in hundredths (0.7 is 70).             *)
(* Wall-clock fields (Duration, Timestamp, StartTime, ProcessTime) and the *)
(* free-text Description/Result of a step are left out: no branch of the   *)
(* code reads them.                                                        *)
(***************************************************************************)
EXTENDS Integers, Sequences, FiniteSets, TLC

VARIABLES
    pc,                \* per worker: where the request handler stands
    req,               \* per worker: the AgentRequest (req.Query is rewritten by the loop)
    response,          \* per worker: the AgentResponse under construction
    finalAnswer,       \* per worker: local finalAnswer of executeAgenticLoop
    confidence,        \* per worker: local confidence of executeAgenticLoop
    iteration,         \* per worker: loop counter of executeAgenticLoop
    plan,              \* per worker: the plan of the running iteration
    err,               \* per worker: the error returned by createExecutionPlan
    executionResults,  \* per worker: results of executeActions in the running iteration
    verification,      \* per worker: the Verification the loop was left with
    conv,              \* per worker: local conv pointer of storeConversation
    conversations,     \* the global map conversation id -> *Conversation
    heap,              \* the Conversation objects the pointers refer to
    appendCalls,       \* (history) per identifier: completed calls of storeConversation
    lastStatus,        \* per worker: HTTP status of the last reply (0: none)
    lastHandler,       \* per worker (history): the handler that last served a request
    spent,             \* iterations the accepted requests have asked for so far
    nextUuid,          \* number of identifiers uuid.New() has handed out
    submitted,         \* per worker (history): the query as the client submitted it
    firstSat,          \* per worker (history): first iteration whose Verification met the gate
    planReply,         \* per worker (history): kind of the reply createExecutionPlan last got
    synthReply,        \* per worker (history): kind of the reply synthesizeAnswer last got
    verifyLog,         \* per worker (history): per Verification of the run, the kind of
                       \* the reply verifyAnswer got and the missing-info it returned
    callReplies,       \* per worker (history): per action of the running iteration, the kind
                       \* of the reply its retrieval or tool call got ("none": no call)
    input,             \* argument of the function under test (function specifications)
    output             \* its result

workerVars == <<pc, req, response, finalAnswer, confidence, iteration, plan, err,
                executionResults, verification, conv, lastStatus, lastHandler, submitted,
                firstSat, planReply, synthReply, verifyLog, callReplies>>
storeVars == <<conversations, heap, appendCalls>>
envVars == <<spent, nextUuid>>
fnVars == <<input, output>>
vars == <<workerVars, storeVars, envVars, fnVars>>

----------------------------------------------------------------------------
(* Bounds of the model *)

MaxCap == 2          \* iterations the requests of one behaviour may ask for in total
MaxActions == 2      \* longest action list handed to executeActions on its own

(* Program constants *)

MAX_ITERATIONS == 5
CONFIDENCE_THRESHOLD == 70

Workers == {"w1", "w2"}
SeqWorkers == {"w1"}

EmptyString == <<>>
NoError == <<>>

----------------------------------------------------------------------------
(* Data model *)

(* mutant: the synthesize phase recorded under the execute tag *)
AgentStep_FourTags(stepNumber, type, success) ==
    [StepNumber |-> stepNumber,
     Type |-> IF type = "synthesize" THEN "execute" ELSE type,
     Success |-> success]

AgentStep(stepNumber, type, success) ==
    [StepNumber |-> stepNumber, Type |-> type, Success |-> success]

NewAgentResponse(conversationID, query) ==
    [ConversationID |-> conversationID, Query |-> query, Answer |-> EmptyString,
     Confidence |-> 0, Iterations |-> 0, ToolsUsed |-> <<>>, Sources |-> <<>>,
     Steps |-> <<>>, NeedMoreInfo |-> FALSE, FollowUpQ |-> EmptyString]

ZeroRequest ==
    [Query |-> EmptyString, ConversationID |-> EmptyString, MaxIterations |-> 0]

ZeroPlan ==
    [OriginalQuery |-> EmptyString, RewrittenQueries |-> <<>>, Actions |-> <<>>,
     Reasoning |-> EmptyString]

ZeroVerification ==
    [IsComplete |-> FALSE, Confidence |-> 0, MissingInfo |-> EmptyString]

Message(role, content) ==
    [Role |-> role, Content |-> content]

NewConversation(conversationID) ==
    [ID |-> conversationID, Messages |-> <<>>]

TopK(type, val) ==
    [type |-> type, val |-> val]

Params(query, collection, topK, tool) ==
    [query |-> query, collection |-> collection, top_k |-> topK, tool |-> tool]

NoParams == Params(EmptyString, EmptyString, TopK("absent", 0), EmptyString)

Action(type, parameters) ==
    [Type |-> type, Parameters |-> parameters]

----------------------------------------------------------------------------
(* Step records *)

(* mutant: the ordinal restarts in every iteration *)
nextStepNumber_PerIteration(steps) ==
    (Len(steps) % 5) + 1

nextStepNumber(steps) ==
    Len(steps) + 1

appendStep(resp, type, success) ==
    [resp EXCEPT !.Steps = Append(@, AgentStep(nextStepNumber(@), type, success))]

----------------------------------------------------------------------------
(* Query rewriting between iterations *)

(* mutant: the missing-info text is put in front of the query *)
enhanceQueryForIteration_Prepend(originalQuery, missingInfo) ==
    IF missingInfo = EmptyString
    THEN originalQuery
    ELSE <<" (specifically about: ">> \o missingInfo \o <<")">> \o originalQuery

enhanceQueryForIteration(originalQuery, missingInfo) ==
    IF missingInfo = EmptyString
    THEN originalQuery
    ELSE originalQuery \o <<" (specifically about: ">> \o missingInfo \o <<")">>

FollowUpTemplate ==
    <<"I need more information to answer completely. Can you provide more context about: ">>

----------------------------------------------------------------------------
(* Answer verifier.  The text-completion collaborator answers free text:   *)
(* a transport error, a response without candidates or parts, a text that  *)
(* does not decode, or a JSON object.  A JSON object is given by the       *)
(* spelling of its keys and the three values it carries; "snake" is the    *)
(* spelling the prompt asks for, "field" spells the keys as the Go field   *)
(* names, "empty" is an object without keys (or JSON null).                *)

JsonKey(style, name) ==
    CASE style = "snake" -> name
      [] style = "field" ->
            (CASE name = "is_complete" -> "IsComplete"
               [] name = "confidence" -> "Confidence"
               [] name = "missing_info" -> "MissingInfo")
      [] style = "empty" -> "-"

(* encoding/json matches an object key to a struct field without a tag by  *)
(* the field's name, exactly or ignoring case: the fold of a name.         *)
FoldName(name) ==
    CASE name = "IsComplete" -> "iscomplete"
      [] name = "Confidence" -> "confidence"
      [] name = "MissingInfo" -> "missinginfo"
      [] OTHER -> name

KeyMatchesField(style, name, fieldName) ==
    /\ style # "empty"
    /\ FoldName(JsonKey(style, name)) = FoldName(fieldName)

(* json.Unmarshal into a zero Verification (no struct tags) *)
UnmarshalVerification(body) ==
    [IsComplete |->
        IF \E n \in {"is_complete", "confidence", "missing_info"} :
               KeyMatchesField(body.style, n, "IsComplete")
        THEN body.is_complete ELSE FALSE,
     Confidence |->
        IF \E n \in {"is_complete", "confidence", "missing_info"} :
               KeyMatchesField(body.style, n, "Confidence")
        THEN body.confidence ELSE 0,
     MissingInfo |->
        IF \E n \in {"is_complete", "confidence", "missing_info"} :
               KeyMatchesField(body.style, n, "MissingInfo")
        THEN body.missing_info ELSE EmptyString]

(* mutant: a reply that does not decode gets the default of a failed call *)
verifyAnswer_CautiousDecode(resp) ==
    CASE resp.kind = "transport" ->
            [IsComplete |-> TRUE, Confidence |-> 50, MissingInfo |-> EmptyString]
      [] resp.kind = "none" ->
            [IsComplete |-> TRUE, Confidence |-> 70, MissingInfo |-> EmptyString]
      [] resp.kind = "undecodable" ->
            [IsComplete |-> TRUE, Confidence |-> 50, MissingInfo |-> EmptyString]
      [] resp.kind = "json" -> UnmarshalVerification(resp.body)

(* mutant: one default for every failure *)
verifyAnswer_OneDefault(resp) ==
    IF resp.kind = "json"
    THEN UnmarshalVerification(resp.body)
    ELSE [IsComplete |-> TRUE, Confidence |-> 70, MissingInfo |-> EmptyString]

verifyAnswer(resp) ==
    CASE resp.kind = "transport" ->
            [IsComplete |-> TRUE, Confidence |-> 50, MissingInfo |-> EmptyString]
      [] resp.kind = "none" ->
            [IsComplete |-> TRUE, Confidence |-> 70, MissingInfo |-> EmptyString]
      [] resp.kind = "undecodable" ->
            [IsComplete |-> TRUE, Confidence |-> 70, MissingInfo |-> EmptyString]
      [] resp.kind = "json" -> UnmarshalVerification(resp.body)

(* mutant: the gate does not look at the confidence *)
StopCondition_CompleteOnly(v) ==
    v.IsComplete

(* mutant: the gate is strict *)
StopCondition_Strict(v) ==
    v.IsComplete /\ v.Confidence > CONFIDENCE_THRESHOLD

StopCondition(v) ==
    v.IsComplete /\ v.Confidence >= CONFIDENCE_THRESHOLD

----------------------------------------------------------------------------
(* Answer synthesizer *)

(* mutant: a failed call yields no text *)
synthesizeAnswer_EmptyOnError(resp) ==
    IF resp.kind = "text" THEN resp.text ELSE EmptyString

synthesizeAnswer(resp) ==
    CASE resp.kind = "transport" ->
            <<"Unable to synthesize answer from available information.">>
      [] resp.kind = "none" -> <<"No answer could be generated.">>
      [] resp.kind = "text" -> resp.text

----------------------------------------------------------------------------
(* Plan generator.  The response is a transport error, a response without  *)
(* candidates, one without parts, a text that does not decode after the    *)
(* code fences are stripped, or a JSON object; original_query is present   *)
(* in the object or not.  A text that does not decode is not JSON at all   *)
(* ("undecodable": json.Unmarshal leaves the plan as it was), or a JSON    *)
(* object with a value of the wrong type ("mistyped": json.Unmarshal       *)
(* decodes the other keys and then returns the error).                     *)

(* mutant: the default plan searches another collection for fewer documents *)
DefaultPlan_MerchantDocs(query) ==
    [OriginalQuery |-> query,
     RewrittenQueries |-> <<query>>,
     Actions |-> <<Action("search_rag",
                          Params(query, <<"merchant_docs">>, TopK("int", 3),
                                 EmptyString))>>,
     Reasoning |-> <<"Default plan: search knowledge base">>]

DefaultPlan(query) ==
    [OriginalQuery |-> query,
     RewrittenQueries |-> <<query>>,
     Actions |-> <<Action("search_rag",
                          Params(query, <<"regulatory_docs">>, TopK("int", 5),
                                 EmptyString))>>,
     Reasoning |-> <<"Default plan: search knowledge base">>]

(* json.Unmarshal into the plan whose OriginalQuery is already set *)
UnmarshalPlan(query, body) ==
    [OriginalQuery |->
        IF body.original_query.present THEN body.original_query.val ELSE query,
     RewrittenQueries |-> body.rewritten_queries,
     Actions |-> body.actions,
     Reasoning |-> body.reasoning]

(* mutant: a transport error falls back to the default plan as well *)
createExecutionPlan_AbsorbTransport(query, resp) ==
    IF resp.kind \in {"json"}
    THEN [plan |-> UnmarshalPlan(query, resp.body), err |-> NoError]
    ELSE [plan |-> DefaultPlan(query), err |-> NoError]

createExecutionPlan(query, resp) ==
    CASE resp.kind = "transport" ->
            [plan |-> ZeroPlan, err |-> <<"transport error">>]
      [] resp.kind = "no_candidates" ->
            [plan |-> ZeroPlan, err |-> <<"no response from model">>]
      [] resp.kind = "no_parts" ->
            [plan |-> ZeroPlan, err |-> <<"empty response">>]
      [] resp.kind = "undecodable" ->
            [plan |-> DefaultPlan(query), err |-> NoError]
      [] resp.kind = "mistyped" ->
            [plan |-> [DefaultPlan(query) EXCEPT
                          !.OriginalQuery =
                              UnmarshalPlan(query, resp.body).OriginalQuery],
             err |-> NoError]
      [] resp.kind = "json" ->
            [plan |-> UnmarshalPlan(query, resp.body), err |-> NoError]

----------------------------------------------------------------------------
(* Action executor.  A result is a Go map[string]interface{}: the keys the *)
(* code reads or writes are status, error and action_type; body names what *)
(* else the decoded reply carries.  A nil map is the map a JSON null body  *)
(* decodes to.  The reply of the retrieval or tool collaborator is a       *)
(* transport error of http.Post, a body that does not decode, a JSON null  *)
(* body, or a JSON object (a payload, or an error reply such as the        *)
(* gateway's {"error": "Tool not found"}).                                 *)

ResultMap(body, status, error) ==
    [nil |-> FALSE, body |-> body, status |-> status, error |-> error,
     action_type |-> ""]

NilMap ==
    [nil |-> TRUE, body |-> "", status |-> "", error |-> EmptyString,
     action_type |-> ""]

(* mutant: a transport error of the call is dropped *)
postAndDecode_DropTransport(resp) ==
    CASE resp.kind = "transport" -> [result |-> NilMap, err |-> NoError]
      [] resp.kind = "undecodable" -> [result |-> NilMap, err |-> <<"decode error">>]
      [] resp.kind = "null" -> [result |-> NilMap, err |-> NoError]
      [] resp.kind = "object" ->
            [result |-> ResultMap(resp.body, "", resp.error), err |-> NoError]

(* http.Post followed by json.NewDecoder(resp.Body).Decode(&result) *)
postAndDecode(resp) ==
    CASE resp.kind = "transport" -> [result |-> NilMap, err |-> <<"transport error">>]
      [] resp.kind = "undecodable" -> [result |-> NilMap, err |-> <<"decode error">>]
      [] resp.kind = "null" -> [result |-> NilMap, err |-> NoError]
      [] resp.kind = "object" ->
            [result |-> ResultMap(resp.body, "", resp.error), err |-> NoError]

(* mutant: the parameters go into the request as they are *)
searchRequest_NoDefaults(params) ==
    [query |-> params.query,
     collection |-> params.collection,
     top_k |-> IF params.top_k.type = "float64" THEN params.top_k.val ELSE 0]

(* the request body executeSearchRAG marshals *)
searchRequest(params) ==
    LET topK == IF params.top_k.type = "float64" THEN params.top_k.val ELSE 0
    IN  [query |-> IF params.query = EmptyString
                   THEN <<"default query">> ELSE params.query,
         collection |-> IF params.collection = EmptyString
                        THEN <<"regulatory_docs">> ELSE params.collection,
         top_k |-> IF topK = 0 THEN 5 ELSE topK]

executeSearchRAG(params, resp) ==
    [called |-> TRUE, request |-> searchRequest(params)] @@ postAndDecode(resp)

(* mutant: the tool name is not checked before the call *)
executeCallTool_NoNameCheck(params, resp) ==
    [called |-> TRUE] @@ postAndDecode(resp)

executeCallTool(params, resp) ==
    IF params.tool = EmptyString
    THEN [called |-> FALSE, result |-> NilMap, err |-> <<"tool name required">>]
    ELSE [called |-> TRUE] @@ postAndDecode(resp)

(* the switch of executeActions: the call (called: a request went out to *)
(* the retrieval or the tool collaborator), and what it registers        *)
dispatchAction(action, resp, rsp) ==
    CASE action.Type = "search_rag" ->
            LET out == executeSearchRAG(action.Parameters, resp)
            IN  [result |-> out.result, err |-> out.err, called |-> out.called,
                 response |-> IF out.err = NoError
                              THEN [rsp EXCEPT
                                      !.Sources = Append(@, <<"RAG Knowledge Base">>)]
                              ELSE rsp]
      [] action.Type = "call_tool" ->
            LET out == executeCallTool(action.Parameters, resp)
            IN  [result |-> out.result, err |-> out.err, called |-> out.called,
                 response |-> IF out.err = NoError
                              THEN [rsp EXCEPT
                                      !.ToolsUsed = Append(@, action.Parameters.tool)]
                              ELSE rsp]
      [] action.Type = "synthesize" ->
            [result |-> ResultMap("", "deferred", EmptyString), err |-> NoError,
             called |-> FALSE, response |-> rsp]
      [] OTHER ->
            [result |-> NilMap, err |-> <<"unknown action type: ", action.Type>>,
             called |-> FALSE, response |-> rsp]

(* mutant: an error of the action does not replace its result *)
actionResult_KeepResult(action, out) ==
    [out.result EXCEPT !.action_type = action.Type]

(* lines 514-525: the failed result, the action_type tag, the append.      *)
(* Writing action_type into a nil map panics.                              *)
actionResult(action, out) ==
    LET result == IF out.err # NoError
                  THEN ResultMap("", "failed", out.err)
                  ELSE out.result
    IN  [result EXCEPT !.action_type = action.Type]

RECURSIVE executeActionsFrom(_, _, _, _, _)
executeActionsFrom(i, actions, resps, results, rsp) ==
    IF i > Len(actions)
    THEN [results |-> results, response |-> rsp, panicked |-> FALSE]
    ELSE LET out == dispatchAction(actions[i], resps[i], rsp)
         IN  IF out.err = NoError /\ out.result.nil
             THEN [results |-> results, response |-> out.response, panicked |-> TRUE]
             ELSE executeActionsFrom(i + 1, actions, resps,
                                     Append(results, actionResult(actions[i], out)),
                                     out.response)

(* mutant: the first failed action ends the list *)
executeActions_StopAtFailure(actions, resps, rsp) ==
    LET full == executeActionsFrom(1, actions, resps, <<>>, rsp)
        failed == {i \in 1..Len(full.results) : full.results[i].status = "failed"}
        first == CHOOSE i \in failed : \A j \in failed : i <= j
    IN  IF failed = {}
        THEN full
        ELSE [full EXCEPT !.results = SubSeq(@, 1, first), !.panicked = FALSE]

executeActions(actions, resps, rsp) ==
    executeActionsFrom(1, actions, resps, <<>>, rsp)

----------------------------------------------------------------------------
(* What the clients and the collaborators may send *)

Queries == {<<"What are the KYC requirements?">>}
ConvIds == {<<"C1">>}
ConfValues == {30, 90, 150}
MissingTexts == {EmptyString, <<"budget limits">>}
AnswerTexts == {<<"answer text">>}

RequestPayload(malformed, query, conversationID, maxIterations) ==
    [malformed |-> malformed, Query |-> query, ConversationID |-> conversationID,
     MaxIterations |-> maxIterations]

MalformedRequest == RequestPayload(TRUE, EmptyString, EmptyString, 0)

(* requests of the loop specification: every cap but the omitted one, *)
(* which stands for MAX_ITERATIONS                                    *)
LoopRequests ==
    {MalformedRequest} \cup
    {RequestPayload(FALSE, q, c, m) :
        q \in Queries \cup {EmptyString},
        c \in ConvIds \cup {EmptyString},
        m \in {-1} \cup (1..MaxCap)}

LlmReply(kind) ==
    [kind |-> kind, text |-> EmptyString]

SynthResponses ==
    {LlmReply("transport"), LlmReply("none")} \cup
    {[kind |-> "text", text |-> t] : t \in AnswerTexts}

VerifyBody(style, isComplete, conf, missingInfo) ==
    [style |-> style, is_complete |-> isComplete, confidence |-> conf,
     missing_info |-> missingInfo]

EmptyBody == VerifyBody("empty", FALSE, 0, EmptyString)

VerifyResponses ==
    {[kind |-> k, body |-> EmptyBody] : k \in {"transport", "none", "undecodable"}} \cup
    {[kind |-> "json", body |-> EmptyBody]} \cup
    {[kind |-> "json", body |-> VerifyBody("snake", b, c, <<"budget limits">>)] :
        b \in BOOLEAN, c \in ConfValues} \cup
    {[kind |-> "json", body |-> VerifyBody("field", b, c, m)] :
        b \in BOOLEAN, c \in ConfValues, m \in MissingTexts}

SampleActions ==
    {Action("search_rag",
            Params(<<"kyc">>, <<"kyc_docs">>, TopK("float64", 3), EmptyString)),
     Action("call_tool",
            Params(EmptyString, EmptyString, TopK("absent", 0), <<"risk-score">>)),
     Action("call_tool", NoParams),
     Action("synthesize", NoParams),
     Action("summarize", NoParams)}

SeqsUpTo(S, n) ==
    UNION {[1..k -> S] : k \in 0..n}

PlanBody(originalQuery, actions) ==
    [original_query |-> originalQuery, rewritten_queries |-> <<>>,
     actions |-> actions, reasoning |-> <<"reasoning">>]

NoPlanBody == PlanBody([present |-> FALSE, val |-> EmptyString], <<>>)

PlanResponsesOver(actionLists) ==
    {[kind |-> k, body |-> NoPlanBody] :
        k \in {"transport", "no_candidates", "no_parts", "undecodable"}} \cup
    {[kind |-> "mistyped",
      body |-> PlanBody([present |-> TRUE, val |-> <<"another query">>], <<>>)]} \cup
    {[kind |-> "json", body |-> PlanBody(oq, as)] :
        oq \in {[present |-> FALSE, val |-> EmptyString],
                [present |-> TRUE, val |-> <<"another query">>]},
        as \in actionLists}

(* plans inside the loop: no action, or any single action (longer lists *)
(* are given to executeActions on its own)                              *)
LoopActionLists ==
    {<<>>} \cup {<<a>> : a \in SampleActions}

LoopPlanResponses == PlanResponsesOver(LoopActionLists)

CollabReply(kind, body, error) ==
    [kind |-> kind, body |-> body, error |-> error]

CollabResponses ==
    {CollabReply("transport", "", EmptyString),
     CollabReply("undecodable", "", EmptyString),
     CollabReply("null", "", EmptyString),
     CollabReply("object", "payload", EmptyString),
     CollabReply("object", "error_reply", <<"Tool not found">>)}

----------------------------------------------------------------------------
(* Initial state: the service has started, no request is being served *)

NoInput == [fn |-> "none"]
NoOutput == [done |-> FALSE]

IdleWorkers ==
    /\ pc = [w \in Workers |-> "idle"]
    /\ req = [w \in Workers |-> ZeroRequest]
    /\ response = [w \in Workers |-> NewAgentResponse(EmptyString, EmptyString)]
    /\ finalAnswer = [w \in Workers |-> EmptyString]
    /\ confidence = [w \in Workers |-> 0]
    /\ iteration = [w \in Workers |-> 0]
    /\ plan = [w \in Workers |-> ZeroPlan]
    /\ err = [w \in Workers |-> NoError]
    /\ executionResults = [w \in Workers |-> <<>>]
    /\ verification = [w \in Workers |-> ZeroVerification]
    /\ conv = [w \in Workers |-> 0]
    /\ lastStatus = [w \in Workers |-> 0]
    /\ lastHandler = [w \in Workers |-> ""]
    /\ submitted = [w \in Workers |-> EmptyString]
    /\ firstSat = [w \in Workers |-> 0]
    /\ planReply = [w \in Workers |-> ""]
    /\ synthReply = [w \in Workers |-> ""]
    /\ verifyLog = [w \in Workers |-> <<>>]
    /\ callReplies = [w \in Workers |-> <<>>]

EmptyStore ==
    /\ conversations = [c \in {} |-> 0]
    /\ heap = <<>>
    /\ appendCalls = [c \in {} |-> 0]

Init ==
    /\ IdleWorkers
    /\ EmptyStore
    /\ spent = 0
    /\ nextUuid = 0
    /\ input = NoInput
    /\ output = NoOutput

----------------------------------------------------------------------------
(* The request handler and the agentic loop, one action per blocking step *)

(* mutant: the loop does not look at the cap *)
loopCondition_NoCap(iter, maxIterations) ==
    TRUE

(* line 249: the condition of the for loop *)
loopCondition(iter, maxIterations) ==
    iter <= maxIterations

(* mutant: the give-up test is off by one *)
capReached_OffByOne(iter, maxIterations) ==
    iter > maxIterations

(* line 339 *)
capReached(iter, maxIterations) ==
    iter >= maxIterations

(* mutant: the follow-up question leaves the missing-info text out *)
followUpQuestion_TemplateOnly(missingInfo) ==
    FollowUpTemplate

(* line 342 *)
followUpQuestion(missingInfo) ==
    FollowUpTemplate \o missingInfo

(* mutant: the failed plan step is recorded as a success *)
planFailedResponse_Success(rsp, e) ==
    [appendStep(rsp, "plan", TRUE) EXCEPT
        !.Answer = <<"Failed to create plan: ">> \o e]

(* lines 269-276: the failed plan step and the diagnostic answer *)
planFailedResponse(rsp, e) ==
    [appendStep(rsp, "plan", FALSE) EXCEPT
        !.Answer = <<"Failed to create plan: ">> \o e]

(* mutant: the iteration count is the step count *)
finishLoop_NoDivision(rsp, answer, conf) ==
    [rsp EXCEPT !.Answer = answer, !.Confidence = conf,
                !.Iterations = Len(rsp.Steps)]

(* lines 350-352 *)
finishLoop(rsp, answer, conf) ==
    [rsp EXCEPT !.Answer = answer, !.Confidence = conf,
                !.Iterations = Len(rsp.Steps) \div 5]

(* the locals of a handler that has returned *)
ReleaseWorker(w, status) ==
    /\ pc' = [pc EXCEPT ![w] = "idle"]
    /\ lastStatus' = [lastStatus EXCEPT ![w] = status]
    /\ UNCHANGED lastHandler
    /\ req' = [req EXCEPT ![w] = ZeroRequest]
    /\ response' = [response EXCEPT ![w] = NewAgentResponse(EmptyString, EmptyString)]
    /\ finalAnswer' = [finalAnswer EXCEPT ![w] = EmptyString]
    /\ confidence' = [confidence EXCEPT ![w] = 0]
    /\ iteration' = [iteration EXCEPT ![w] = 0]
    /\ plan' = [plan EXCEPT ![w] = ZeroPlan]
    /\ err' = [err EXCEPT ![w] = NoError]
    /\ executionResults' = [executionResults EXCEPT ![w] = <<>>]
    /\ verification' = [verification EXCEPT ![w] = ZeroVerification]
    /\ conv' = [conv EXCEPT ![w] = 0]
    /\ submitted' = [submitted EXCEPT ![w] = EmptyString]
    /\ firstSat' = [firstSat EXCEPT ![w] = 0]
    /\ planReply' = [planReply EXCEPT ![w] = ""]
    /\ synthReply' = [synthReply EXCEPT ![w] = ""]
    /\ verifyLog' = [verifyLog EXCEPT ![w] = <<>>]
    /\ callReplies' = [callReplies EXCEPT ![w] = <<>>]

(* what an accepted request takes from the behaviour's iteration budget *)
Cost(maxIterations) ==
    IF maxIterations < 1 THEN 1 ELSE maxIterations

(* mutant: an empty query is let through *)
validRequest_AllowEmpty(r) ==
    ~r.malformed

(* lines 157-166: the payload decodes and the query is not empty *)
validRequest(r) ==
    ~r.malformed /\ r.Query # EmptyString

(* mutant: a cap that was left out stays 0 *)
capOrDefault_Keep(maxIterations) ==
    maxIterations

(* lines 168-170: a cap that is 0 (or was left out) becomes MAX_ITERATIONS *)
capOrDefault(maxIterations) ==
    IF maxIterations = 0 THEN MAX_ITERATIONS ELSE maxIterations

(* agentQueryHandler up to the call of executeAgenticLoop, and the loop's  *)
(* entry: lines 157-180 and 237-249.  A cap below 1 skips the loop body.   *)
agentQueryHandler(w, requests, budget) ==
    /\ pc[w] = "idle"
    /\ lastHandler' = [lastHandler EXCEPT ![w] = "query"]
    /\ \E r \in requests :
        IF ~validRequest(r)
        THEN /\ lastStatus' = [lastStatus EXCEPT ![w] = 400]
             /\ UNCHANGED <<pc, req, response, finalAnswer, confidence, iteration,
                            plan, err, executionResults, verification, conv,
                            submitted, firstSat, planReply, synthReply, verifyLog, callReplies, envVars>>
        ELSE LET maxIterations == capOrDefault(r.MaxIterations)
                 fresh == r.ConversationID = EmptyString
                 conversationID == IF fresh
                                   THEN <<"uuid-", ToString(nextUuid + 1)>>
                                   ELSE r.ConversationID
                 rsp == NewAgentResponse(conversationID, r.Query)
             IN  /\ spent + Cost(maxIterations) <= budget
                 /\ spent' = spent + Cost(maxIterations)
                 /\ nextUuid' = IF fresh THEN nextUuid + 1 ELSE nextUuid
                 /\ lastStatus' = [lastStatus EXCEPT ![w] = 0]
                 /\ req' = [req EXCEPT ![w] =
                                [Query |-> r.Query, ConversationID |-> conversationID,
                                 MaxIterations |-> maxIterations]]
                 /\ submitted' = [submitted EXCEPT ![w] = r.Query]
                 /\ finalAnswer' = [finalAnswer EXCEPT ![w] = EmptyString]
                 /\ confidence' = [confidence EXCEPT ![w] = 0]
                 /\ iteration' = [iteration EXCEPT ![w] = 1]
                 /\ IF loopCondition(1, maxIterations)
                    THEN /\ response' = [response EXCEPT ![w] = rsp]
                         /\ pc' = [pc EXCEPT ![w] = "analyze"]
                    ELSE /\ response' = [response EXCEPT ![w] =
                                            finishLoop(rsp, EmptyString, 0)]
                         /\ pc' = [pc EXCEPT ![w] = "store"]
                 /\ UNCHANGED <<plan, err, executionResults, verification, conv,
                                firstSat, planReply, synthReply, verifyLog, callReplies>>
    /\ UNCHANGED <<storeVars, fnVars>>

(* STEP 1, lines 252-263 *)
Analyze(w) ==
    /\ pc[w] = "analyze"
    /\ response' = [response EXCEPT ![w] = appendStep(@, "analyze", TRUE)]
    /\ pc' = [pc EXCEPT ![w] = "plan"]
    /\ UNCHANGED <<req, finalAnswer, confidence, iteration, plan, err,
                   executionResults, verification, conv, lastStatus, lastHandler, submitted,
                   firstSat, planReply, synthReply, verifyLog, callReplies, storeVars,
                   envVars, fnVars>>

(* mutant: after a plan error the loop is left as by a break, and the *)
(* exchange is stored                                                *)
Plan_BreakOnError(w, planResponses) ==
    /\ pc[w] = "plan"
    /\ \E r \in planResponses :
        LET out == createExecutionPlan(req[w].Query, r)
        IN  /\ err' = [err EXCEPT ![w] = out.err]
            /\ planReply' = [planReply EXCEPT ![w] = r.kind]
            /\ IF out.err # NoError
               THEN /\ response' = [response EXCEPT ![w] =
                                       planFailedResponse(@, out.err)]
                    /\ pc' = [pc EXCEPT ![w] = "store"]
                    /\ UNCHANGED plan
               ELSE /\ response' = [response EXCEPT ![w] = appendStep(@, "plan", TRUE)]
                    /\ plan' = [plan EXCEPT ![w] = out.plan]
                    /\ pc' = [pc EXCEPT ![w] = "execute"]
    /\ UNCHANGED <<req, finalAnswer, confidence, iteration, executionResults,
                   verification, conv, lastStatus, lastHandler, submitted, firstSat,
                   synthReply, verifyLog, callReplies, storeVars, envVars, fnVars>>

(* STEP 2, lines 265-287: a plan error returns the response at once *)
Plan(w, planResponses) ==
    /\ pc[w] = "plan"
    /\ \E r \in planResponses :
        LET out == createExecutionPlan(req[w].Query, r)
        IN  /\ err' = [err EXCEPT ![w] = out.err]
            /\ planReply' = [planReply EXCEPT ![w] = r.kind]
            /\ IF out.err # NoError
               THEN /\ response' = [response EXCEPT ![w] =
                                       planFailedResponse(@, out.err)]
                    /\ pc' = [pc EXCEPT ![w] = "done"]
                    /\ UNCHANGED plan
               ELSE /\ response' = [response EXCEPT ![w] = appendStep(@, "plan", TRUE)]
                    /\ plan' = [plan EXCEPT ![w] = out.plan]
                    /\ pc' = [pc EXCEPT ![w] = "execute"]
    /\ UNCHANGED <<req, finalAnswer, confidence, iteration, executionResults,
                   verification, conv, lastStatus, lastHandler, submitted, firstSat,
                   synthReply, verifyLog, callReplies, storeVars, envVars, fnVars>>

(* STEP 3, lines 289-300.  The plan is not read after line 300. *)
Execute(w, collabResponses) ==
    /\ pc[w] = "execute"
    /\ \E resps \in [1..Len(plan[w].Actions) -> collabResponses] :
        LET out == executeActions(plan[w].Actions, resps, response[w])
        IN  /\ IF out.panicked
                  THEN /\ response' = [response EXCEPT ![w] = out.response]
                       /\ pc' = [pc EXCEPT ![w] = "panicked"]
                       /\ UNCHANGED executionResults
                  ELSE /\ response' = [response EXCEPT ![w] =
                                          appendStep(out.response, "execute", TRUE)]
                       /\ executionResults' =
                              [executionResults EXCEPT ![w] = out.results]
                       /\ pc' = [pc EXCEPT ![w] = "synthesize"]
            /\ callReplies' = [callReplies EXCEPT ![w] =
                   [i \in 1..(Len(out.results) + (IF out.panicked THEN 1 ELSE 0)) |->
                       IF dispatchAction(plan[w].Actions[i], resps[i],
                                         response[w]).called
                       THEN resps[i].kind ELSE "none"]]
    /\ plan' = [plan EXCEPT ![w] = ZeroPlan]
    /\ planReply' = [planReply EXCEPT ![w] = ""]
    /\ UNCHANGED <<req, finalAnswer, confidence, iteration, err, verification,
                   conv, lastStatus, lastHandler, submitted, firstSat, synthReply, verifyLog,
                   storeVars, envVars, fnVars>>

(* STEP 4, lines 302-313 *)
Synthesize(w, synthResponses) ==
    /\ pc[w] = "synthesize"
    /\ \E r \in synthResponses :
        /\ finalAnswer' = [finalAnswer EXCEPT ![w] = synthesizeAnswer(r)]
        /\ synthReply' = [synthReply EXCEPT ![w] = r.kind]
    /\ response' = [response EXCEPT ![w] = appendStep(@, "synthesize", TRUE)]
    /\ pc' = [pc EXCEPT ![w] = "verify"]
    /\ UNCHANGED <<req, confidence, iteration, plan, err, executionResults,
                   verification, conv, lastStatus, lastHandler, submitted, firstSat, planReply,
                   callReplies, verifyLog, storeVars, envVars, fnVars>>

(* STEP 5 and STEP 6, lines 315-352: verify, then stop, give up or rewrite *)
(* the query and loop.  executionResults is not read after line 317; the   *)
(* Verification is a variable of the loop body, gone when the body is      *)
(* entered again, and kept here once the loop is left.                     *)
Verify(w, verifyResponses) ==
    /\ pc[w] = "verify"
    /\ \E r \in verifyResponses :
        LET v == verifyAnswer(r)
            stepped == appendStep(response[w], "verify", TRUE)
        IN  /\ confidence' = [confidence EXCEPT ![w] = v.Confidence]
            /\ verifyLog' = [verifyLog EXCEPT ![w] =
                   Append(@, [reply |-> r.kind, missing |-> v.MissingInfo])]
            /\ firstSat' = [firstSat EXCEPT ![w] =
                   IF @ = 0 /\ v.IsComplete /\ v.Confidence >= 70
                   THEN iteration[w] ELSE @]
            /\ IF StopCondition(v)
               THEN /\ response' = [response EXCEPT ![w] =
                           finishLoop([stepped EXCEPT !.NeedMoreInfo = FALSE],
                                      finalAnswer[w], v.Confidence)]
                    /\ pc' = [pc EXCEPT ![w] = "store"]
                    /\ verification' = [verification EXCEPT ![w] = v]
                    /\ UNCHANGED <<req, iteration>>
               ELSE IF capReached(iteration[w], req[w].MaxIterations)
               THEN /\ response' = [response EXCEPT ![w] =
                           finishLoop([stepped EXCEPT
                                          !.NeedMoreInfo = TRUE,
                                          !.FollowUpQ = followUpQuestion(v.MissingInfo)],
                                      finalAnswer[w], v.Confidence)]
                    /\ pc' = [pc EXCEPT ![w] = "store"]
                    /\ verification' = [verification EXCEPT ![w] = v]
                    /\ UNCHANGED <<req, iteration>>
               ELSE /\ req' = [req EXCEPT ![w].Query =
                                  enhanceQueryForIteration(@, v.MissingInfo)]
                    /\ iteration' = [iteration EXCEPT ![w] = @ + 1]
                    /\ IF loopCondition(iteration[w] + 1, req[w].MaxIterations)
                       THEN /\ response' = [response EXCEPT ![w] = stepped]
                            /\ verification' = [verification EXCEPT ![w] =
                                                    ZeroVerification]
                            /\ pc' = [pc EXCEPT ![w] = "analyze"]
                       ELSE /\ response' = [response EXCEPT ![w] =
                                   finishLoop(stepped, finalAnswer[w], v.Confidence)]
                            /\ verification' = [verification EXCEPT ![w] = v]
                            /\ pc' = [pc EXCEPT ![w] = "store"]
    /\ executionResults' = [executionResults EXCEPT ![w] = <<>>]
    /\ callReplies' = [callReplies EXCEPT ![w] = <<>>]
    /\ UNCHANGED <<finalAnswer, plan, err, conv, lastStatus, lastHandler, submitted, planReply,
                   synthReply, storeVars, envVars, fnVars>>

(* storeConversation, line 707: look the conversation up in the map *)
StoreLookup(w) ==
    /\ pc[w] = "store"
    /\ IF req[w].ConversationID \in DOMAIN conversations
       THEN /\ conv' = [conv EXCEPT ![w] = conversations[req[w].ConversationID]]
            /\ pc' = [pc EXCEPT ![w] = "append"]
       ELSE /\ pc' = [pc EXCEPT ![w] = "create"]
            /\ UNCHANGED conv
    /\ UNCHANGED <<req, response, finalAnswer, confidence, iteration, plan, err,
                   executionResults, verification, lastStatus, lastHandler, submitted, firstSat,
                   planReply, synthReply, verifyLog, callReplies, storeVars, envVars, fnVars>>

(* storeConversation, lines 708-715: the identifier was not in the map; a *)
(* new Conversation is allocated and the map entry is written             *)
StoreCreate(w) ==
    /\ pc[w] = "create"
    /\ heap' = Append(heap, NewConversation(req[w].ConversationID))
    /\ conversations' =
           [c \in DOMAIN conversations \cup {req[w].ConversationID} |->
               IF c = req[w].ConversationID
               THEN Len(heap) + 1 ELSE conversations[c]]
    /\ conv' = [conv EXCEPT ![w] = Len(heap) + 1]
    /\ pc' = [pc EXCEPT ![w] = "append"]
    /\ UNCHANGED <<req, response, finalAnswer, confidence, iteration, plan, err,
                   executionResults, verification, lastStatus, lastHandler, submitted, firstSat,
                   planReply, synthReply, verifyLog, callReplies, appendCalls, envVars, fnVars>>

(* mutant: only the user's message is kept *)
storedMessages_UserOnly(query, answer) ==
    <<Message("user", query)>>

(* the two messages of lines 718-719 *)
storedMessages(query, answer) ==
    <<Message("user", query), Message("assistant", answer)>>

(* storeConversation, lines 717-720, and the return of line 357 *)
StoreAppend(w) ==
    /\ pc[w] = "append"
    /\ heap' = [heap EXCEPT ![conv[w]].Messages =
                   @ \o storedMessages(req[w].Query, finalAnswer[w])]
    /\ appendCalls' =
           [c \in DOMAIN appendCalls \cup {req[w].ConversationID} |->
               (IF c \in DOMAIN appendCalls THEN appendCalls[c] ELSE 0) +
               (IF c = req[w].ConversationID THEN 1 ELSE 0)]
    /\ pc' = [pc EXCEPT ![w] = "done"]
    /\ UNCHANGED <<req, response, finalAnswer, confidence, iteration, plan, err,
                   executionResults, verification, conv, lastStatus, lastHandler, submitted,
                   firstSat, planReply, synthReply, verifyLog, callReplies, conversations,
                   envVars, fnVars>>

(* agentQueryHandler, lines 181-185: the result goes out with status 200 *)
Respond(w) ==
    /\ pc[w] = "done"
    /\ ReleaseWorker(w, 200)
    /\ UNCHANGED <<storeVars, envVars, fnVars>>

(* a panic unwinds the handler; net/http drops the connection without a reply *)
AbortRequest(w) ==
    /\ pc[w] = "panicked"
    /\ ReleaseWorker(w, 0)
    /\ UNCHANGED <<storeVars, envVars, fnVars>>

(* mutant: the plan is executed as well, with a call to the retrieval service *)
planHandler_Executes(w, requests, planResponses) ==
    /\ pc[w] = "idle"
    /\ lastHandler' = [lastHandler EXCEPT ![w] = "plan"]
    /\ lastStatus' = [lastStatus EXCEPT ![w] = 200]
    /\ callReplies' = [callReplies EXCEPT ![w] = <<"object">>]
    /\ response' = [response EXCEPT ![w].Sources = <<<<"RAG Knowledge Base">>>>]
    /\ UNCHANGED <<pc, req, finalAnswer, confidence, iteration, plan, err,
                   executionResults, verification, conv, submitted, firstSat,
                   planReply, synthReply, verifyLog, storeVars, envVars, fnVars>>

(* planHandler, lines 189-208: the plan goes to the client, nothing is kept *)
planHandler(w, requests, planResponses) ==
    /\ pc[w] = "idle"
    /\ lastHandler' = [lastHandler EXCEPT ![w] = "plan"]
    /\ \E r \in requests :
        IF r.malformed
        THEN lastStatus' = [lastStatus EXCEPT ![w] = 400]
        ELSE \E p \in planResponses :
                lastStatus' = [lastStatus EXCEPT ![w] =
                    IF createExecutionPlan(r.Query, p).err # NoError
                    THEN 500 ELSE 200]
    /\ UNCHANGED <<pc, req, response, finalAnswer, confidence, iteration, plan, err,
                   executionResults, verification, conv, submitted, firstSat,
                   planReply, synthReply, verifyLog, callReplies, storeVars, envVars, fnVars>>

(* historyHandler, lines 211-227: the identifier of the path is looked up *)
historyHandler(w, conversationIDs) ==
    /\ pc[w] = "idle"
    /\ lastHandler' = [lastHandler EXCEPT ![w] = "history"]
    /\ \E conversationID \in conversationIDs :
        IF conversationID = EmptyString
        THEN /\ lastStatus' = [lastStatus EXCEPT ![w] = 400]
             /\ UNCHANGED <<pc, conv>>
        ELSE IF conversationID \notin DOMAIN conversations
        THEN /\ lastStatus' = [lastStatus EXCEPT ![w] = 404]
             /\ UNCHANGED <<pc, conv>>
        ELSE /\ conv' = [conv EXCEPT ![w] = conversations[conversationID]]
             /\ pc' = [pc EXCEPT ![w] = "history"]
             /\ lastStatus' = [lastStatus EXCEPT ![w] = 0]
    /\ UNCHANGED <<req, response, finalAnswer, confidence, iteration, plan, err,
                   executionResults, verification, submitted, firstSat,
                   planReply, synthReply, verifyLog, callReplies, storeVars, envVars, fnVars>>

(* historyHandler, line 229: respondJSON reads the Conversation behind the *)
(* pointer and writes it to the client with status 200                    *)
HistoryRespond(w) ==
    /\ pc[w] = "history"
    /\ ReleaseWorker(w, 200)
    /\ UNCHANGED <<storeVars, envVars, fnVars>>

LoopStep(w) ==
    \/ Analyze(w)
    \/ Plan(w, LoopPlanResponses)
    \/ Execute(w, CollabResponses)
    \/ Synthesize(w, SynthResponses)
    \/ Verify(w, VerifyResponses)
    \/ StoreLookup(w)
    \/ StoreCreate(w)
    \/ StoreAppend(w)

Next ==
    \E w \in SeqWorkers :
        \/ agentQueryHandler(w, LoopRequests, MaxCap)
        \/ planHandler(w, LoopRequests, LoopPlanResponses)
        \/ historyHandler(w, ConvIds \cup {EmptyString})
        \/ HistoryRespond(w)
        \/ LoopStep(w)
        \/ Respond(w)
        \/ AbortRequest(w)

Spec == Init /\ [][Next]_vars

(* A worker goroutine that can take a step does take it: the collaborators *)
(* answer every call (with a reply or an error).                           *)
FairSpec == Spec /\ \A w \in SeqWorkers : WF_vars(LoopStep(w))

----------------------------------------------------------------------------
(* Requests served at the same time.  net/http runs every handler in a     *)
(* goroutine of its own and the code takes no lock, so the steps of two    *)
(* handlers interleave.  The collaborators answer one way here: the plan   *)
(* reply does not decode (default plan), retrieval answers a payload, the  *)
(* answer is a text, the verification call fails ({true, 0.5, ""}), and    *)
(* every query has the cap 1, so each query runs one iteration and then    *)
(* goes to the store.                                                      *)

ConcRequests ==
    {RequestPayload(FALSE, q, c, 1) : q \in Queries, c \in ConvIds}

ConcPlanResponses == {[kind |-> "undecodable", body |-> NoPlanBody]}

ConcCollabResponses == {CollabReply("object", "payload", EmptyString)}

ConcSynthResponses == {[kind |-> "text", text |-> t] : t \in AnswerTexts}

ConcVerifyResponses == {[kind |-> "transport", body |-> EmptyBody]}

(* The Go runtime may detect that the map is written by one goroutine     *)
(* (line 714) while another is about to read or write it (lines 223, 707, *)
(* 714) and end the process with "fatal error: concurrent map writes" or  *)
(* "concurrent map read and map write": nothing is served any more.       *)
FatalMapAccess ==
    /\ \E w \in Workers, v \in Workers :
            /\ w # v
            /\ pc[w] = "create"
            /\ pc[v] \in {"store", "create"}
    /\ pc' = [w \in Workers |-> "crashed"]
    /\ UNCHANGED <<req, response, finalAnswer, confidence, iteration, plan, err,
                   executionResults, verification, conv, lastStatus, lastHandler, submitted,
                   firstSat, planReply, synthReply, verifyLog, callReplies, storeVars,
                   envVars, fnVars>>

ConcStep(w) ==
    \/ Analyze(w)
    \/ Plan(w, ConcPlanResponses)
    \/ Execute(w, ConcCollabResponses)
    \/ Synthesize(w, ConcSynthResponses)
    \/ Verify(w, ConcVerifyResponses)
    \/ StoreLookup(w)
    \/ StoreCreate(w)
    \/ StoreAppend(w)

ConcNext ==
    \/ \E w \in Workers :
        \/ agentQueryHandler(w, ConcRequests, MaxCap)
        \/ historyHandler(w, ConvIds)
        \/ HistoryRespond(w)
        \/ ConcStep(w)
        \/ Respond(w)
    \/ FatalMapAccess

ConcSpec == Init /\ [][ConcNext]_vars

----------------------------------------------------------------------------
(* Runs under the default cap: one request at a time that leaves            *)
(* max_iterations out, so the loop may run MAX_ITERATIONS iterations.  The  *)
(* plan reply does not decode (default plan) or the call fails, retrieval   *)
(* answers a payload, the answer is a text; the verifier fails, or answers  *)
(* an unsatisfied Verification with one of three missing-info texts, or a   *)
(* satisfied one.                                                           *)

CapRequests ==
    {RequestPayload(FALSE, q, c, 0) : q \in Queries, c \in ConvIds \cup {EmptyString}}

CapPlanResponses ==
    {[kind |-> k, body |-> NoPlanBody] : k \in {"undecodable", "transport"}}

CapVerifyResponses ==
    {[kind |-> "transport", body |-> EmptyBody],
     [kind |-> "json", body |-> VerifyBody("field", TRUE, 90, EmptyString)]} \cup
    {[kind |-> "json", body |-> VerifyBody("field", FALSE, 30, m)] :
        m \in {EmptyString, <<"budget limits">>, <<"kyc rules">>}}

CapStep(w) ==
    \/ Analyze(w)
    \/ Plan(w, CapPlanResponses)
    \/ Execute(w, ConcCollabResponses)
    \/ Synthesize(w, ConcSynthResponses)
    \/ Verify(w, CapVerifyResponses)
    \/ StoreLookup(w)
    \/ StoreCreate(w)
    \/ StoreAppend(w)

CapNext ==
    \E w \in SeqWorkers :
        \/ agentQueryHandler(w, CapRequests, MAX_ITERATIONS)
        \/ CapStep(w)
        \/ Respond(w)

CapSpec == Init /\ [][CapNext]_vars

----------------------------------------------------------------------------
(* executeActions on its own: any action list up to MaxActions, any reply *)
(* of the collaborators to each action.                                   *)

ExecInputs ==
    UNION {{[fn |-> "executeActions", actions |-> as, resps |-> rs] :
               rs \in [1..Len(as) -> CollabResponses]} :
           as \in SeqsUpTo(SampleActions, MaxActions)}

ExecInit ==
    /\ IdleWorkers
    /\ EmptyStore
    /\ spent = 0
    /\ nextUuid = 0
    /\ input \in ExecInputs
    /\ output = NoOutput

ApplyExecuteActions ==
    /\ input.fn = "executeActions"
    /\ ~output.done
    /\ output' = [done |-> TRUE] @@
                 executeActions(input.actions, input.resps,
                                NewAgentResponse(EmptyString, EmptyString))
    /\ UNCHANGED <<workerVars, storeVars, envVars, input>>

ExecNext == ApplyExecuteActions

ExecSpec == ExecInit /\ [][ExecNext]_vars

----------------------------------------------------------------------------
(* createExecutionPlan and verifyAnswer on their own: any query, any reply *)
(* of the text-completion collaborator, plans of up to MaxActions actions. *)

FnQueries == Queries \cup {<<"How is merchant risk scored?">>}

PlanInputs ==
    {[fn |-> "createExecutionPlan", query |-> q, resp |-> r] :
        q \in FnQueries,
        r \in PlanResponsesOver(SeqsUpTo(SampleActions, MaxActions))}

VerifyInputs ==
    {[fn |-> "verifyAnswer", query |-> q, resp |-> r] :
        q \in FnQueries, r \in VerifyResponses}

(* parameters of a search_rag action: query and collection empty (or *)
(* missing, or no string) or given; top_k missing, a JSON number, or  *)
(* the int of the default plan                                        *)
SearchParams ==
    {Params(q, c, t, EmptyString) :
        q \in {EmptyString, <<"kyc">>},
        c \in {EmptyString, <<"kyc_docs">>},
        t \in {TopK("absent", 0), TopK("float64", 0), TopK("float64", 3),
               TopK("int", 5)}}

SearchInputs ==
    {[fn |-> "executeSearchRAG", params |-> p, resp |-> r] :
        p \in SearchParams, r \in CollabResponses}

FnInit ==
    /\ IdleWorkers
    /\ EmptyStore
    /\ spent = 0
    /\ nextUuid = 0
    /\ input \in PlanInputs \cup VerifyInputs \cup SearchInputs
    /\ output = NoOutput

ApplyCreateExecutionPlan ==
    /\ input.fn = "createExecutionPlan"
    /\ ~output.done
    /\ output' = [done |-> TRUE] @@ createExecutionPlan(input.query, input.resp)
    /\ UNCHANGED <<workerVars, storeVars, envVars, input>>

ApplyVerifyAnswer ==
    /\ input.fn = "verifyAnswer"
    /\ ~output.done
    /\ output' = [done |-> TRUE, verification |-> verifyAnswer(input.resp)]
    /\ UNCHANGED <<workerVars, storeVars, envVars, input>>

ApplyExecuteSearchRAG ==
    /\ input.fn = "executeSearchRAG"
    /\ ~output.done
    /\ output' = [done |-> TRUE] @@ executeSearchRAG(input.params, input.resp)
    /\ UNCHANGED <<workerVars, storeVars, envVars, input>>

FnNext ==
    \/ ApplyCreateExecutionPlan
    \/ ApplyVerifyAnswer
    \/ ApplyExecuteSearchRAG

FnSpec == FnInit /\ [][FnNext]_vars

----------------------------------------------------------------------------
(* The ingest service's chunkText, run one loop iteration at a time.  A    *)
(* text is the sequence of its runes: the letter "a", the space, and       *)
(* "EUR", which stands for the rune U+20AC (3 bytes in UTF-8; len() of a   *)
(* string counts bytes, the chunker counts runes).  The identifiers        *)
(* uuid.New() gives the chunks are left out.                               *)

MaxRunes == 5        \* longest text handed to chunkText, in runes

DefaultChunkSize == 500
DefaultChunkOverlap == 50
MinTextBytes == 10

Runes == {"a", " ", "EUR"}

RuneBytes(r) == IF r = "EUR" THEN 3 ELSE 1

RECURSIVE ByteLen(_)
ByteLen(text) ==
    IF text = <<>> THEN 0 ELSE RuneBytes(Head(text)) + ByteLen(Tail(text))

(* strings.TrimSpace *)
TrimSpace(text) ==
    LET solid == {i \in 1..Len(text) : text[i] # " "}
    IN  IF solid = {}
        THEN <<>>
        ELSE SubSeq(text, CHOOSE i \in solid : \A j \in solid : i <= j,
                          CHOOSE i \in solid : \A j \in solid : j <= i)

(* ingestHandler, line 169: shorter texts are rejected before chunking *)
ChunkTexts ==
    {t \in SeqsUpTo(Runes, MaxRunes) : ByteLen(TrimSpace(t)) >= MinTextBytes}

(* chunk_size and chunk_overlap as the request gives them (0: left out) *)
RequestChunkSizes == {-1, 0, 2, 4}
RequestChunkOverlaps == {-1, 0, 1, 2, 4}

(* ingestHandler, lines 153-158 *)
chunkSizeOrDefault(size) == IF size = 0 THEN DefaultChunkSize ELSE size

chunkOverlapOrDefault(overlap) == IF overlap = 0 THEN DefaultChunkOverlap ELSE overlap

ChunkInputs ==
    {[fn |-> "chunkText", text |-> t, docID |-> <<"doc-1">>,
      size |-> chunkSizeOrDefault(cs), overlap |-> chunkOverlapOrDefault(co)] :
        t \in ChunkTexts, cs \in RequestChunkSizes, co \in RequestChunkOverlaps}

(* the loop has appended as many chunks as the model follows it for: a   *)
(* call that returns makes no more than one chunk per rune               *)
MaxChunks == MaxRunes + 1

Chunk(docID, text, position) ==
    [DocumentID |-> docID, Text |-> text, Position |-> position]

ChunkInit ==
    /\ IdleWorkers
    /\ EmptyStore
    /\ spent = 0
    /\ nextUuid = 0
    /\ input \in ChunkInputs
    /\ output = [done |-> FALSE, panicked |-> FALSE, i |-> 0, pos |-> 0,
                 chunks |-> <<>>]

(* the statement i += size - overlap of the for clause *)
advance(out) ==
    [out EXCEPT !.i = @ + input.size - input.overlap]

(* one evaluation of the loop condition and, when it holds, one run of the *)
(* loop body and the post statement (lines 303-325)                        *)
chunkTextStep ==
    /\ input.fn = "chunkText"
    /\ ~output.done
    /\ Len(output.chunks) < MaxChunks
    /\ LET runes == input.text
           end == IF output.i + input.size > Len(runes)
                  THEN Len(runes) ELSE output.i + input.size
           part == TrimSpace(SubSeq(runes, output.i + 1, end))
       IN  output' =
               IF ~(output.i < Len(runes))
               THEN [output EXCEPT !.done = TRUE]
               ELSE IF output.i < 0 \/ end < output.i
               THEN [output EXCEPT !.done = TRUE, !.panicked = TRUE]
               ELSE IF part = <<>>
               THEN advance(output)
               ELSE LET appended ==
                          [output EXCEPT
                              !.chunks = Append(@, Chunk(input.docID, part, output.pos)),
                              !.pos = @ + 1]
                    IN  IF end >= Len(runes)
                        THEN [appended EXCEPT !.done = TRUE]
                        ELSE advance(appended)
    /\ UNCHANGED <<workerVars, storeVars, envVars, input>>

ChunkNext == chunkTextStep

(* the goroutine that runs chunkText keeps running *)
ChunkSpec == ChunkInit /\ [][ChunkNext]_vars /\ WF_vars(ChunkNext)

----------------------------------------------------------------------------
(* Vocabulary of the claims *)

Phases == <<"analyze", "plan", "execute", "synthesize", "verify">>

PhaseAt(i) == Phases[((i - 1) % 5) + 1]

Steps(w) == response[w].Steps

Returned(w) == pc[w] = "done"

HardStopped(w) == err[w] # NoError

AtLeastZero(n) == IF n < 0 THEN 0 ELSE n

(* the confidence gate as the claims state it: complete, and at least 0.7 *)
MeetsGate(v) == v.IsComplete /\ v.Confidence >= 70

(* the loop ran out of iterations: no plan error, no Verification met the gate *)
Exhausted(w) ==
    /\ Returned(w)
    /\ ~HardStopped(w)
    /\ firstSat[w] = 0
    /\ req[w].MaxIterations >= 1

Contains(text, part) ==
    \E i \in 1..(Len(text) + 1) :
        /\ i + Len(part) - 1 <= Len(text)
        /\ SubSeq(text, i, i + Len(part) - 1) = part

----------------------------------------------------------------------------
C2_StopsAtFirstSatisfied ==
    \A w \in Workers :
        firstSat[w] # 0 =>
            /\ pc[w] \in {"store", "create", "append", "done"}
            /\ iteration[w] = firstSat[w]
            /\ Len(Steps(w)) = 5 * firstSat[w]
            /\ response[w].NeedMoreInfo = FALSE

C2_Witness ==
    \E w \in Workers :
        /\ Returned(w)
        /\ firstSat[w] = 1
        /\ req[w].MaxIterations = 2
        /\ Len(Steps(w)) = 5

(* C3 (as amended): when the loop has run its max_iterations >= 1          *)
(* iterations without a plan error and no Verification met the gate, the   *)
(* result has need_more_info = true and a non-empty follow_up_question.    *)
C3_ExhaustedNeedsInfo ==
    \A w \in Workers :
        Exhausted(w) =>
            /\ response[w].NeedMoreInfo = TRUE
            /\ response[w].FollowUpQ # EmptyString

(* C3 as stated: no Verification met the gate, so need_more_info is true *)
C3_Original ==
    \A w \in Workers :
        (Returned(w) /\ firstSat[w] = 0) =>
            /\ response[w].NeedMoreInfo = TRUE
            /\ response[w].FollowUpQ # EmptyString

C3_Witness ==
    \E w \in Workers :
        /\ Exhausted(w)
        /\ req[w].MaxIterations = 2
        /\ response[w].NeedMoreInfo

(* C4: follow_up_question is the template followed by the missing-info     *)
(* text of the last Verification when the cap is reached without the gate  *)
(* being met, and is empty in every other result.                          *)
C4_FollowUpQuestion ==
    \A w \in Workers :
        Returned(w) =>
            response[w].FollowUpQ =
                IF Exhausted(w)
                THEN FollowUpTemplate \o verification[w].MissingInfo
                ELSE EmptyString

C4_Witness ==
    \E w \in Workers :
        /\ Exhausted(w)
        /\ verification[w].MissingInfo = <<"budget limits">>
        /\ response[w].FollowUpQ = FollowUpTemplate \o <<"budget limits">>

(* C5: a plan error in iteration k ends the run there: the last step is a  *)
(* failed plan step right after the analyze step of iteration k, nothing   *)
(* follows it, the answer is the diagnostic, need_more_info is false.      *)
C5_PlanErrorHardStops ==
    \A w \in Workers :
        HardStopped(w) =>
            /\ Returned(w)
            /\ Len(Steps(w)) = 5 * (iteration[w] - 1) + 2
            /\ Steps(w)[Len(Steps(w))].Type = "plan"
            /\ Steps(w)[Len(Steps(w))].Success = FALSE
            /\ Steps(w)[Len(Steps(w)) - 1].Type = "analyze"
            /\ response[w].Answer = <<"Failed to create plan: ">> \o err[w]
            /\ response[w].NeedMoreInfo = FALSE

C5_Witness ==
    \E w \in Workers :
        /\ HardStopped(w)
        /\ Returned(w)
        /\ iteration[w] = 2
        /\ response[w].Answer = <<"Failed to create plan: ", "transport error">>

(* C6 (as amended): the steps follow the order analyze, plan, execute,     *)
(* synthesize, verify by position; an iteration that runs through appends  *)
(* five of them, so a result not cut short by a plan error holds a         *)
(* multiple of 5 steps, and a run cut short in iteration k holds 5(k-1)+2. *)
C6_PhaseOrder ==
    \A w \in Workers :
        /\ \A i \in 1..Len(Steps(w)) : Steps(w)[i].Type = PhaseAt(i)
        /\ pc[w] = "analyze" => Len(Steps(w)) = 5 * (iteration[w] - 1)
        /\ pc[w] = "plan" => Len(Steps(w)) = 5 * (iteration[w] - 1) + 1
        /\ pc[w] = "execute" => Len(Steps(w)) = 5 * (iteration[w] - 1) + 2
        /\ pc[w] = "synthesize" => Len(Steps(w)) = 5 * (iteration[w] - 1) + 3
        /\ pc[w] = "verify" => Len(Steps(w)) = 5 * (iteration[w] - 1) + 4
        /\ (Returned(w) /\ ~HardStopped(w)) => Len(Steps(w)) % 5 = 0
        /\ (Returned(w) /\ HardStopped(w)) =>
                Len(Steps(w)) = 5 * (iteration[w] - 1) + 2

(* C6 as stated: every returned result holds a multiple of 5 steps, the    *)
(* step at position i carrying phase (i-1) mod 5                           *)
C6_Original ==
    \A w \in Workers :
        Returned(w) =>
            /\ Len(Steps(w)) % 5 = 0
            /\ \A i \in 1..Len(Steps(w)) : Steps(w)[i].Type = PhaseAt(i)

C6_Witness ==
    \E w \in Workers :
        /\ Returned(w)
        /\ ~HardStopped(w)
        /\ Len(Steps(w)) = 10
        /\ Steps(w)[9].Type = "synthesize"

(* C7: the i-th step carries step_number i, across iteration boundaries    *)
(* and in a hard-stopped run.                                              *)
C7_OrdinalsCount ==
    \A w \in Workers :
        \A i \in 1..Len(Steps(w)) : Steps(w)[i].StepNumber = i

C7_Witness ==
    \E w \in Workers :
        /\ Returned(w)
        /\ HardStopped(w)
        /\ Len(Steps(w)) = 7
        /\ Steps(w)[7].StepNumber = 7

(* C8 as stated: in every returned result, hard-stopped ones included, the *)
(* iteration count is (number of steps) / 5, and it does not exceed the    *)
(* cap (stated for caps of at least 1).                                    *)
C8_IterationsDerived ==
    \A w \in Workers :
        Returned(w) =>
            /\ response[w].Iterations = Len(Steps(w)) \div 5
            /\ req[w].MaxIterations >= 1 =>
                   response[w].Iterations <= req[w].MaxIterations

(* C9: without a plan error a loop that ends in iteration k (the gate met, *)
(* or k = max_iterations) returns 5k steps and iterations = k; cap 1 with  *)
(* the gate met gives 1 iteration, 5 steps, no need for more info; cap 2   *)
(* with the gate never met gives 10 steps and need_more_info with the      *)
(* missing-info text inside the follow-up question.                        *)
C9_StepsAndIterations ==
    \A w \in Workers :
        (Returned(w) /\ ~HardStopped(w) /\ req[w].MaxIterations >= 1) =>
            /\ MeetsGate(verification[w]) \/ iteration[w] = req[w].MaxIterations
            /\ Len(Steps(w)) = 5 * iteration[w]
            /\ response[w].Iterations = iteration[w]
            /\ (req[w].MaxIterations = 1 /\ MeetsGate(verification[w])) =>
                   /\ response[w].Iterations = 1
                   /\ Len(Steps(w)) = 5
                   /\ response[w].NeedMoreInfo = FALSE
            /\ (req[w].MaxIterations = 2 /\ firstSat[w] = 0) =>
                   /\ Len(Steps(w)) = 10
                   /\ response[w].NeedMoreInfo = TRUE
                   /\ Contains(response[w].FollowUpQ, verification[w].MissingInfo)

C9_Witness ==
    \E w \in Workers :
        /\ Returned(w)
        /\ req[w].MaxIterations = 2
        /\ firstSat[w] = 0
        /\ Len(Steps(w)) = 10
        /\ response[w].Iterations = 2
        /\ verification[w].MissingInfo = <<"budget limits">>
        /\ Contains(response[w].FollowUpQ, <<"budget limits">>)

(* C10 as stated: executeActions returns one result per action, in order,  *)
(* result i tagged with the kind of action i, whatever the collaborators   *)
(* reply.                                                                  *)
C10_OneResultPerAction ==
    output.done =>
        /\ ~output.panicked
        /\ Len(output.results) = Len(input.actions)
        /\ \A i \in 1..Len(input.actions) :
               output.results[i].action_type = input.actions[i].Type

----------------------------------------------------------------------------
(* Vocabulary of the executor claims: input and output of executeActions *)

FreshResponse == NewAgentResponse(EmptyString, EmptyString)

(* actions the executor got to: those with a result, and the one it panicked on *)
Dispatched(out) == Len(out.results) + (IF out.panicked THEN 1 ELSE 0)

(* action i of the input returns an error (transport, decode, no tool name, *)
(* unknown type)                                                           *)
ActionFailed(i) ==
    dispatchAction(input.actions[i], input.resps[i], FreshResponse).err # NoError

(* action i of the input executed as a list of its own *)
Alone(i) ==
    executeActions(<<input.actions[i]>>, <<input.resps[i]>>, FreshResponse)

NoToolName(action) ==
    action.Type = "call_tool" /\ action.Parameters.tool = EmptyString

(* C11: an action that returns an error does not end the list: the next    *)
(* action of the list is dispatched as well, and the result of every       *)
(* action is the result it has when it is executed alone.                  *)
C11_BestEffort ==
    output.done =>
        \A i \in 1..Len(output.results) :
            /\ output.results[i] = Alone(i).results[1]
            /\ (ActionFailed(i) /\ i < Len(input.actions))
                   => Dispatched(output) >= i + 1

C11_Witness ==
    /\ output.done
    /\ Len(input.actions) = 2
    /\ ActionFailed(1)
    /\ input.actions[1].Type = "summarize"
    /\ Len(output.results) = 2
    /\ output.results[1].status = "failed"
    /\ output.results[2].status = ""
    /\ output.results[2].body = "payload"

(* C12: a call_tool action without a tool name gets the result             *)
(* {status: failed, error: tool name required}, the executor does not      *)
(* panic on it, no request goes to the tool collaborator, and tools_used   *)
(* is left as it was.                                                      *)
C12_MissingToolName ==
    output.done =>
        /\ \A i \in 1..Dispatched(output) :
               NoToolName(input.actions[i]) =>
                   LET out == dispatchAction(input.actions[i], input.resps[i],
                                             FreshResponse)
                   IN  /\ i <= Len(output.results)
                       /\ output.results[i].status = "failed"
                       /\ output.results[i].error = <<"tool name required">>
                       /\ ~out.called
                       /\ out.response.ToolsUsed = <<>>
        /\ Len(output.response.ToolsUsed) <=
               Cardinality({i \in 1..Dispatched(output) :
                               /\ input.actions[i].Type = "call_tool"
                               /\ ~NoToolName(input.actions[i])})
        /\ \A k \in 1..Len(output.response.ToolsUsed) :
               output.response.ToolsUsed[k] # EmptyString

C12_Witness ==
    /\ output.done
    /\ Len(output.results) = 2
    /\ NoToolName(input.actions[1])
    /\ input.resps[1].kind = "object"
    /\ output.results[1].status = "failed"
    /\ output.response.ToolsUsed = <<>>

----------------------------------------------------------------------------
(* Vocabulary of the planner and verifier claims *)

Planned == output.done /\ input.fn = "createExecutionPlan"

Verified == output.done /\ input.fn = "verifyAnswer"

Default(conf) ==
    [IsComplete |-> TRUE, Confidence |-> conf, MissingInfo |-> EmptyString]

(* C13: when the text of the planning reply does not decode as the plan    *)
(* JSON, createExecutionPlan returns no error and the default plan:        *)
(* rewritten queries = [query], one search_rag action on regulatory_docs   *)
(* with the query and top_k 5, reasoning "Default plan: search knowledge   *)
(* base".                                                                  *)
C13_DefaultPlan ==
    (Planned /\ input.resp.kind \in {"undecodable", "mistyped"}) =>
        /\ output.err = NoError
        /\ output.plan.RewrittenQueries = <<input.query>>
        /\ Len(output.plan.Actions) = 1
        /\ output.plan.Actions[1].Type = "search_rag"
        /\ output.plan.Actions[1].Parameters.query = input.query
        /\ output.plan.Actions[1].Parameters.collection = <<"regulatory_docs">>
        /\ output.plan.Actions[1].Parameters.top_k.val = 5
        /\ output.plan.Reasoning = <<"Default plan: search knowledge base">>

C13_Witness ==
    /\ Planned
    /\ input.resp.kind = "undecodable"
    /\ input.query = <<"What are the KYC requirements?">>
    /\ output.err = NoError
    /\ Len(output.plan.Actions) = 1

(* C14: a transport error of the planning call is returned as an error     *)
(* with no plan, and the loop returns in that iteration, after the failed  *)
(* plan step, with no action executed: no execution results, and no tool   *)
(* or source registered by the step that took the error.                   *)
C14_TransportErrorPropagates ==
    /\ [](\A w \in Workers :
            planReply[w] = "transport" =>
                /\ err[w] # NoError
                /\ plan[w] = ZeroPlan
                /\ Returned(w)
                /\ executionResults[w] = <<>>
                /\ Len(Steps(w)) = 5 * (iteration[w] - 1) + 2
                /\ Steps(w)[Len(Steps(w))].Type = "plan"
                /\ ~Steps(w)[Len(Steps(w))].Success)
    /\ [][\A w \in Workers :
            (planReply'[w] = "transport" /\ planReply[w] # "transport") =>
                /\ response'[w].ToolsUsed = response[w].ToolsUsed
                /\ response'[w].Sources = response[w].Sources]_vars

C14_Witness ==
    \E w \in Workers :
        /\ planReply[w] = "transport"
        /\ Returned(w)
        /\ iteration[w] = 2
        /\ Len(Steps(w)) = 7

(* C15: verifyAnswer returns a Verification for every reply; it is         *)
(* {true, 0.5, ""} when the call fails and {true, 0.7, ""} when the reply  *)
(* does not decode.                                                        *)
C15_VerifyDefaults ==
    Verified =>
        /\ input.resp.kind = "transport" => output.verification = Default(50)
        /\ input.resp.kind = "undecodable" => output.verification = Default(70)

C15_Witness ==
    /\ Verified
    /\ input.resp.kind = "transport"
    /\ output.verification = Default(50)

(* C16: the confidence of every Verification and of every response is in   *)
(* [0, 1], whatever confidence the verification reply carries.             *)
C16_ConfidenceInRange ==
    \A w \in Workers :
        /\ verification[w].Confidence \in 0..100
        /\ confidence[w] \in 0..100
        /\ response[w].Confidence \in 0..100

----------------------------------------------------------------------------
(* Vocabulary of the store claims *)

(* the messages historyHandler answers for an identifier (none: 404) *)
History(conversationID) ==
    IF conversationID \in DOMAIN conversations
    THEN heap[conversations[conversationID]].Messages
    ELSE <<>>

(* the request of worker w has gone through storeConversation *)
Stored(w) == Returned(w) /\ ~HardStopped(w)

IsPrefix(s, t) ==
    Len(s) <= Len(t) /\ SubSeq(t, 1, Len(s)) = s

(* C17: when a query has been answered and stored, the last two messages   *)
(* of its conversation are the user's message with the query as it was     *)
(* submitted and the assistant's message with the answer of the result.    *)
C17_HistoryEndsWithExchange ==
    \A w \in Workers :
        Stored(w) =>
            LET h == History(req[w].ConversationID)
            IN  /\ Len(h) >= 2
                /\ h[Len(h) - 1] = Message("user", submitted[w])
                /\ h[Len(h)] = Message("assistant", response[w].Answer)

Even(n) == n % 2 = 0

RoleAt(i) == IF i % 2 = 1 THEN "user" ELSE "assistant"

(* C18: when requests are served one after the other, storeConversation   *)
(* creates the conversation, empty, on the first use of an identifier,     *)
(* each call appends a user message and an assistant message to what the   *)
(* conversation held, and so a conversation that n calls were made for     *)
(* holds 2n messages with the roles user, assistant in turn.               *)
C18_TwoMessagesPerCall ==
    /\ [](\A c \in DOMAIN conversations :
            LET calls == IF c \in DOMAIN appendCalls THEN appendCalls[c] ELSE 0
            IN  /\ Even(Len(History(c)))
                /\ \A i \in 1..Len(History(c)) : History(c)[i].Role = RoleAt(i)
                /\ Len(History(c)) = 2 * calls)
    /\ [][\A w \in SeqWorkers :
            /\ (pc[w] = "create" /\ pc'[w] = "append") =>
                   /\ req[w].ConversationID \notin DOMAIN conversations
                   /\ History(req[w].ConversationID)' = <<>>
            /\ (pc[w] = "append" /\ pc'[w] = "done") =>
                   LET before == History(req[w].ConversationID)
                       after == History(req[w].ConversationID)'
                   IN  /\ Len(after) = Len(before) + 2
                       /\ IsPrefix(before, after)
                       /\ after[Len(before) + 1].Role = "user"
                       /\ after[Len(before) + 2].Role = "assistant"]_vars

C18_Witness ==
    \E c \in DOMAIN conversations :
        /\ c \in DOMAIN appendCalls
        /\ appendCalls[c] = 2
        /\ Len(History(c)) = 4

(* C19: the messages of a conversation only grow: from any state to the    *)
(* next, every conversation of the store is still in the store and the     *)
(* messages it had are a prefix of the messages it has.                    *)
C19_MessagesOnlyGrow ==
    [][\A c \in DOMAIN conversations :
          /\ c \in DOMAIN conversations'
          /\ IsPrefix(History(c), History(c)')]_vars

(* a request between the lookup of line 707 and the end of the append *)
InsideAppend(w) == pc[w] \in {"create", "append"}

(* a history request between the lookup of line 223 and the reply of line 229 *)
ReadingStore(w) == pc[w] = "history"

(* C20: no request is inside storeConversation while another request is    *)
(* inside storeConversation or is reading the store in historyHandler.     *)
C20_StoreMutualExclusion ==
    \A w \in Workers, v \in Workers :
        (w # v /\ InsideAppend(w)) => ~(InsideAppend(v) \/ ReadingStore(v))

----------------------------------------------------------------------------
(* Vocabulary of the loop claims, continued *)

(* worker w takes the step that leaves position p *)
Leaves(w, p) == pc[w] = p /\ pc'[w] # p

LastStep(steps) == steps[Len(steps)]

SynthesisFallback == <<"Unable to synthesize answer from available information.">>

NoDuplicates(s) ==
    \A i, j \in 1..Len(s) : s[i] = s[j] => i = j

(* C21: when the loop goes on to the next iteration, the query given to    *)
(* the next planning phase differs from the query given to this one.       *)
C21_QueryRewritten ==
    [][\A w \in Workers :
          (pc[w] = "verify" /\ pc'[w] = "analyze") =>
              req'[w].Query # req[w].Query]_vars

(* C22: when the synthesis call fails, the answer is the static text       *)
(* "Unable to synthesize answer from available information.", the          *)
(* synthesize step is recorded as a success, the loop goes on to the       *)
(* verify phase of the same iteration, and the verify step is recorded     *)
(* with that answer still in place.                                        *)
C22_SynthesisFallback ==
    /\ [](\A w \in Workers :
            synthReply[w] = "transport" => finalAnswer[w] = SynthesisFallback)
    /\ [][\A w \in Workers :
            /\ (Leaves(w, "synthesize") /\ synthReply'[w] = "transport") =>
                   /\ pc'[w] = "verify"
                   /\ iteration'[w] = iteration[w]
                   /\ Len(Steps(w)') = Len(Steps(w)) + 1
                   /\ LastStep(Steps(w)').Type = "synthesize"
                   /\ LastStep(Steps(w)').Success
            /\ (Leaves(w, "verify") /\ synthReply[w] = "transport") =>
                   /\ Len(Steps(w)') = Len(Steps(w)) + 1
                   /\ LastStep(Steps(w)').Type = "verify"
                   /\ finalAnswer'[w] = SynthesisFallback]_vars

C22_Witness ==
    \E w \in Workers :
        /\ Returned(w)
        /\ synthReply[w] = "transport"
        /\ response[w].Answer = SynthesisFallback
        /\ Len(Steps(w)) = 5
        /\ Steps(w)[5].Type = "verify"

(* C23: a query request that does not decode or whose query is empty is    *)
(* answered 400 and nothing else happens: no worker is ever in a phase of  *)
(* the loop or in the store with an empty submitted query, and the step    *)
(* that rejects the request changes no step list, no request state and     *)
(* nothing of the store.                                                   *)
C23_RejectedBeforeLoop ==
    /\ [](\A w \in Workers :
            pc[w] \notin {"idle", "history", "crashed"} =>
                submitted[w] # EmptyString)
    /\ [][\A w \in Workers :
            (pc[w] = "idle" /\ lastHandler'[w] = "query" /\ lastStatus'[w] = 400) =>
                /\ pc'[w] = "idle"
                /\ response'[w] = response[w]
                /\ Steps(w)' = <<>>
                /\ req'[w] = req[w]
                /\ planReply'[w] = "" /\ synthReply'[w] = "" /\ verifyLog'[w] = <<>> /\ callReplies'[w] = <<>>
                /\ UNCHANGED <<storeVars, envVars>>]_vars

C23_Witness ==
    \E w \in Workers :
        /\ pc[w] = "idle"
        /\ lastHandler[w] = "query"
        /\ lastStatus[w] = 400
        /\ heap # <<>>

(* C24: a plan request changes nothing but the reply: no action is         *)
(* executed, no call goes to the retrieval or the tool collaborator, no    *)
(* step, tool or source is recorded, and the store is as it was.           *)
C24_PlanIsDryRun ==
    [][\A w \in Workers :
          (pc[w] = "idle" /\ lastHandler'[w] = "plan") =>
              /\ pc'[w] = "idle"
              /\ lastStatus'[w] \in {200, 400, 500}
              /\ response'[w] = response[w]
              /\ executionResults'[w] = <<>>
              /\ callReplies'[w] = <<>>
              /\ UNCHANGED <<storeVars, envVars>>]_vars

C24_Witness ==
    \E w \in Workers :
        /\ pc[w] = "idle"
        /\ lastHandler[w] = "plan"
        /\ lastStatus[w] = 200
        /\ heap # <<>>
        /\ response[w].Sources = <<>>

(* C25: no tool name occurs twice in tools_used and no source twice in     *)
(* sources.                                                                *)
C25_ToolsAndSourcesAreSets ==
    \A w \in Workers :
        /\ NoDuplicates(response[w].ToolsUsed)
        /\ NoDuplicates(response[w].Sources)

(* some call of the execute phase this worker is in, or has just left, *)
(* ended in a transport error                                          *)
TransportFailure(w) ==
    \E i \in 1..Len(callReplies[w]) : callReplies[w][i] = "transport"

(* C26: a call of the execute phase that ends in a transport error leaves  *)
(* a result with status failed and the error text, the execute step of     *)
(* the iteration is recorded, and the synthesize and the verify phase of   *)
(* the same iteration run and record their steps.                          *)
C26_TransportErrorInBand ==
    /\ [](\A w \in Workers :
            \A i \in 1..Len(callReplies[w]) :
                callReplies[w][i] = "transport" =>
                    /\ pc[w] \in {"synthesize", "verify"}
                    /\ Len(executionResults[w]) = Len(callReplies[w])
                    /\ executionResults[w][i].status = "failed"
                    /\ executionResults[w][i].error = <<"transport error">>
                    /\ Len(Steps(w)) = 5 * (iteration[w] - 1) +
                                       (IF pc[w] = "synthesize" THEN 3 ELSE 4)
                    /\ Steps(w)[5 * (iteration[w] - 1) + 3].Type = "execute")
    /\ [][\A w \in Workers :
            /\ (Leaves(w, "synthesize") /\ TransportFailure(w)) =>
                   /\ pc'[w] = "verify"
                   /\ iteration'[w] = iteration[w]
                   /\ LastStep(Steps(w)').Type = "synthesize"
            /\ (Leaves(w, "verify") /\ TransportFailure(w)) =>
                   /\ Len(Steps(w)') = 5 * iteration[w]
                   /\ LastStep(Steps(w)').Type = "verify"]_vars

C26_Witness ==
    \E w \in Workers :
        /\ pc[w] = "verify"
        /\ iteration[w] = 2
        /\ callReplies[w] = <<"transport">>
        /\ executionResults[w][1].status = "failed"
        /\ Steps(w)[8].Type = "execute"
        /\ Steps(w)[9].Type = "synthesize"

----------------------------------------------------------------------------
(* Replies of the collaborators that report an error in a JSON object, as   *)
(* the gateway does for an unknown tool (respondError, 404)                 *)

ErrorReply(resp) == resp.kind = "object" /\ resp.body = "error_reply"

(* action i of the input made a call and the collaborator answered with an *)
(* error reply                                                            *)
RefusedCall(i) ==
    /\ dispatchAction(input.actions[i], input.resps[i], FreshResponse).called
    /\ ErrorReply(input.resps[i])

(* C27: a call that the collaborator answers with an error reply ("Tool    *)
(* not found") gives a failed result, and neither the tool name nor the    *)
(* retrieval source is registered for it.                                  *)
C27_RegisteredOnlyOnSuccess ==
    (output.done /\ ~output.panicked) =>
        \A i \in 1..Len(input.actions) :
            RefusedCall(i) =>
                /\ output.results[i].status = "failed"
                /\ Alone(i).response.ToolsUsed = <<>>
                /\ Alone(i).response.Sources = <<>>

(* C28: a verification reply that is the JSON object                       *)
(* {is_complete: b, confidence: c, missing_info: m} gives the Verification *)
(* with is-complete b, confidence c and missing-info m.                    *)
C28_VerificationDecoded ==
    (Verified /\ input.resp.kind = "json" /\ input.resp.body.style = "snake") =>
        /\ output.verification.IsComplete = input.resp.body.is_complete
        /\ output.verification.Confidence = input.resp.body.confidence
        /\ output.verification.MissingInfo = input.resp.body.missing_info

----------------------------------------------------------------------------
(* Vocabulary of the retrieval request claim *)

Searched == output.done /\ input.fn = "executeSearchRAG"

OrElse(text, default) == IF text = EmptyString THEN default ELSE text

(* the top_k the action asks for: 0 when it gives none *)
AskedTopK(params) ==
    IF params.top_k.type = "absent" THEN 0 ELSE params.top_k.val

(* C29: the request of a search_rag action carries the action's query,     *)
(* collection and top_k, with "default query" for an empty or missing      *)
(* query, regulatory_docs for an empty or missing collection, and 5 for a  *)
(* top_k that is 0 or missing.                                             *)
C29_SearchRequestDefaults ==
    Searched =>
        /\ output.called
        /\ output.request.query = OrElse(input.params.query, <<"default query">>)
        /\ output.request.collection =
               OrElse(input.params.collection, <<"regulatory_docs">>)
        /\ output.request.top_k =
               (IF AskedTopK(input.params) = 0 THEN 5 ELSE AskedTopK(input.params))

C29_Witness ==
    /\ Searched
    /\ input.params.query = EmptyString
    /\ input.params.collection = EmptyString
    /\ input.params.top_k = TopK("float64", 0)
    /\ output.request =
           [query |-> <<"default query">>, collection |-> <<"regulatory_docs">>,
            top_k |-> 5]

----------------------------------------------------------------------------
(* Vocabulary of the action kind claim *)

KnownKinds == {"search_rag", "call_tool", "synthesize"}

(* action i of the input sent a request to a collaborator *)
Called(i) ==
    dispatchAction(input.actions[i], input.resps[i], FreshResponse).called

(* C30: an action of a kind other than search_rag, call_tool and           *)
(* synthesize makes no call and its result is failed with the message      *)
(* "unknown action type: <kind>"; a synthesize action makes no call and    *)
(* its result has status deferred.                                         *)
C30_UnknownAndSynthesizeKinds ==
    output.done =>
        \A i \in 1..Len(output.results) :
            /\ input.actions[i].Type \notin KnownKinds =>
                   /\ ~Called(i)
                   /\ output.results[i].status = "failed"
                   /\ output.results[i].error =
                          <<"unknown action type: ", input.actions[i].Type>>
            /\ input.actions[i].Type = "synthesize" =>
                   /\ ~Called(i)
                   /\ output.results[i].status = "deferred"
                   /\ output.results[i].error = EmptyString

C30_Witness ==
    /\ output.done
    /\ Len(output.results) = 2
    /\ input.actions[1].Type = "summarize"
    /\ input.actions[2].Type = "synthesize"
    /\ output.results[1].status = "failed"
    /\ output.results[2].status = "deferred"
    /\ output.response.ToolsUsed = <<>>
    /\ output.response.Sources = <<>>

----------------------------------------------------------------------------
(* Vocabulary of the claims about whole runs *)

Suffix(missingInfo) == <<" (specifically about: ">> \o missingInfo \o <<")">>

(* the suffixes of the missing-info texts of a log, in the order of the log *)
RECURSIVE Suffixes(_)
Suffixes(log) ==
    IF log = <<>>
    THEN EmptyString
    ELSE Suffixes(SubSeq(log, 1, Len(log) - 1)) \o Suffix(log[Len(log)].missing)

AllMissing(log) ==
    \A i \in 1..Len(log) : log[i].missing # EmptyString

(* C31: at the analyze and the planning phase of iteration j+1 the         *)
(* Verifications of iterations 1..j are behind; the first iteration works  *)
(* on the query as submitted, and when every one of these Verifications    *)
(* named a missing-info text, the query is the submitted query followed    *)
(* by " (specifically about: m)" for each text m, in the order of the      *)
(* iterations.                                                             *)
C31_RewriteAccumulates ==
    \A w \in Workers :
        pc[w] \in {"analyze", "plan"} =>
            /\ iteration[w] = Len(verifyLog[w]) + 1
            /\ iteration[w] = 1 => req[w].Query = submitted[w]
            /\ AllMissing(verifyLog[w]) =>
                   req[w].Query = submitted[w] \o Suffixes(verifyLog[w])

C31_Witness ==
    \E w \in Workers :
        /\ pc[w] = "plan"
        /\ iteration[w] = 3
        /\ verifyLog[w][1].missing = <<"budget limits">>
        /\ verifyLog[w][2].missing = <<"kyc rules">>
        /\ req[w].Query =
               submitted[w] \o
               <<" (specifically about: ", "budget limits", ")",
                 " (specifically about: ", "kyc rules", ")">>

(* C32: when two Query requests of one conversation have both completed    *)
(* storeConversation, the conversation holds the four messages of the two  *)
(* requests, each user message followed by the assistant message of the    *)
(* same request.                                                           *)
C32_NoMessageLost ==
    \A c \in DOMAIN appendCalls :
        appendCalls[c] = 2 =>
            /\ c \in DOMAIN conversations
            /\ Len(History(c)) = 4
            /\ \A i \in 1..Len(History(c)) :
                   History(c)[i].Role = RoleAt(i)

(* the last two messages of a conversation *)
LastExchange(conversationID) ==
    SubSeq(History(conversationID), Len(History(conversationID)) - 1,
           Len(History(conversationID)))

(* the loop of worker w has not reached storeConversation yet *)
BeforeStore(w) ==
    pc[w] \in {"analyze", "plan", "execute", "synthesize", "verify", "store"}

C34_AtLeastOnePass ==
    \A w \in Workers :
        Returned(w) =>
            /\ Len(Steps(w)) >= 1
            /\ Steps(w)[1].Type = "analyze"
            /\ \/ HardStopped(w) /\ Contains(response[w].Answer, <<"Failed to create plan: ">>)
               \/ synthReply[w] # "" /\ response[w].Answer = finalAnswer[w]

(* C35: the original query of every plan createExecutionPlan returns is    *)
(* the query it was called with, whatever the reply holds, decoded or not. *)
C35_OriginalQueryKept ==
    (Planned /\ output.err = NoError) =>
        output.plan.OriginalQuery = input.query

(* worker w is in a phase of the loop *)
InLoop(w) ==
    pc[w] \in {"analyze", "plan", "execute", "synthesize", "verify"}

(* C36: a run that a plan error ends never enters storeConversation, and   *)
(* no step of it, from the acceptance of the request through the phases    *)
(* of all its iterations to the reply, changes the store: no conversation  *)
(* is created and no message appended.                                     *)
C36_HardStopLeavesStore ==
    /\ [](\A w \in Workers : HardStopped(w) => Returned(w))
    /\ [][\A w \in Workers :
            (\/ pc[w] = "idle" /\ lastHandler'[w] = "query"
             \/ InLoop(w)
             \/ Returned(w) /\ HardStopped(w)) => UNCHANGED storeVars]_vars

C36_Witness ==
    \E w \in Workers :
        /\ Returned(w)
        /\ HardStopped(w)
        /\ iteration[w] = 2
        /\ finalAnswer[w] = <<"answer text">>
        /\ History(req[w].ConversationID) = <<>>
        /\ heap = <<>>

(* worker w takes the verify step and the verifier's call gets a reply of *)
(* this kind                                                              *)
VerifiesWith(w, kind) ==
    /\ pc[w] = "verify"
    /\ Len(verifyLog'[w]) = Len(verifyLog[w]) + 1
    /\ LastStep(verifyLog'[w]).reply = kind

EveryReply(log, kind) ==
    \A i \in 1..Len(log) : log[i].reply = kind

(* C37: a verify step whose call fails never ends the loop as satisfied:   *)
(* below the cap the next iteration starts with the same query, at the cap *)
(* the loop gives up; and when the call failed in every iteration of a     *)
(* returned run, the result has need_more_info, confidence 0.5 and the     *)
(* bare template as follow_up_question.                                    *)
C37_VerifierFailureContinues ==
    /\ [][\A w \in Workers :
            VerifiesWith(w, "transport") =>
                /\ firstSat'[w] = 0
                /\ confidence'[w] = 50
                /\ IF iteration[w] < req[w].MaxIterations
                   THEN /\ pc'[w] = "analyze"
                        /\ iteration'[w] = iteration[w] + 1
                        /\ req'[w].Query = req[w].Query
                   ELSE /\ pc'[w] = "store"
                        /\ response'[w].NeedMoreInfo = TRUE]_vars
    /\ [](\A w \in Workers :
            (/\ Returned(w) /\ ~HardStopped(w)
             /\ verifyLog[w] # <<>> /\ EveryReply(verifyLog[w], "transport")) =>
                /\ Len(verifyLog[w]) = req[w].MaxIterations
                /\ req[w].Query = submitted[w]
                /\ response[w].NeedMoreInfo = TRUE
                /\ response[w].Confidence = 50
                /\ response[w].FollowUpQ = FollowUpTemplate)

C37_Witness ==
    \E w \in Workers :
        /\ Returned(w)
        /\ ~HardStopped(w)
        /\ Len(verifyLog[w]) = 2
        /\ EveryReply(verifyLog[w], "transport")
        /\ response[w].NeedMoreInfo = TRUE
        /\ response[w].Confidence = 50
        /\ response[w].FollowUpQ = FollowUpTemplate

(* C38: a verification reply that does not decode ends the loop in that    *)
(* iteration as satisfied: the result has need_more_info = false and       *)
(* confidence 0.7, and no phase of a further iteration runs.               *)
C38_UndecodableVerificationStops ==
    \A w \in Workers :
        (verifyLog[w] # <<>> /\ LastStep(verifyLog[w]).reply = "undecodable") =>
            /\ pc[w] \in {"store", "create", "append", "done"}
            /\ iteration[w] = Len(verifyLog[w])
            /\ firstSat[w] = iteration[w]
            /\ Len(Steps(w)) = 5 * iteration[w]
            /\ response[w].NeedMoreInfo = FALSE
            /\ response[w].Confidence = 70
            /\ response[w].Iterations = iteration[w]

C38_Witness ==
    \E w \in Workers :
        /\ Returned(w)
        /\ req[w].MaxIterations = 2
        /\ Len(verifyLog[w]) = 1
        /\ verifyLog[w][1].reply = "undecodable"
        /\ response[w].Confidence = 70
        /\ response[w].NeedMoreInfo = FALSE
        /\ Len(Steps(w)) = 5

(* C39: a returned result of a run in which a Verification was made        *)
(* carries the confidence of the last Verification and the text of the     *)
(* last synthesis, in a run that a later plan error ends as well.          *)
C39_ResultCarriesLastRound ==
    \A w \in Workers :
        (Returned(w) /\ verifyLog[w] # <<>>) =>
            /\ response[w].Confidence = confidence[w]
            /\ response[w].Answer = finalAnswer[w]

----------------------------------------------------------------------------
(* Vocabulary of the chunking claim *)

ChunksReturned == output.done /\ ~output.panicked

(* C40: every call of chunkText returns, and the chunks it returns carry   *)
(* the positions 0, 1, 2, ... in order.                                    *)
C40_ChunkTextTerminates ==
    /\ <>ChunksReturned
    /\ [](output.done =>
            /\ ~output.panicked
            /\ \A k \in 1..Len(output.chunks) : output.chunks[k].Position = k - 1)

====
